---------------------------- MODULE Spec2Model ----------------------------
(***************************************************************************)
(* A model of the uuid package (uuid.go): the UUID string codec (Parse,    *)
(* MustParse, String, AppendFormatted) and the hash based Generator        *)
(* (NewMD5Gen, NewSHA1Gen, Generate).                                      *)
(*                                                                         *)
(* Conventions.  A Go string or []byte is a sequence of bytes (0..255); a  *)
(* character is its ASCII code.  Go indexes from 0 and TLA+ sequences from *)
(* 1: At(s, i) is Go's s[i].  A UUID ([16]byte) is a function on 0..15, so *)
(* uuid[6] and uuid[8] are the bytes the source calls uuid[6] and uuid[8]. *)
(***************************************************************************)
EXTENDS Integers, Sequences, FiniteSets, TLC

VARIABLES
    s0,          \* codec: the string handed to Parse and MustParse
    p,           \* codec: what Parse(s0) returned
    m,           \* codec: what MustParse(s0) returned
    ps,          \* codec: String() of the UUID Parse returned
    u0,          \* codec: the UUID that is formatted
    b0,          \* codec: the buffer handed to AppendFormatted
    f,           \* codec: u0.String()
    a,           \* codec: u0.AppendFormatted(b0)
    fp,          \* codec: what Parse(u0.String()) returned
    ran,         \* codec: the calls made so far
    hg,          \* generator: the Generator object (h, namespace, buf, version)
    target,      \* generator: the caller's UUID, one per caller
    input,       \* generator: the input of each caller's (latest) call
    calls,       \* generator: number of Generate calls completed
    pc,          \* generator: each concurrent caller's position in Generate
    overlapped   \* generator: did a caller step while the other was inside Generate

vars == <<s0, p, m, ps, u0, b0, f, a, fp, ran, hg, target, input, calls, pc, overlapped>>

codecVars == <<s0, p, m, ps, u0, b0, f, a, fp, ran>>
genVars   == <<hg, target, input, calls, pc, overlapped>>

-----------------------------------------------------------------------------
(* Bounds of the model *)

\* how many characters of a base string an input string may differ in
MaxEdits == 2

\* how many bytes of a base UUID an input UUID may differ in
MaxByteEdits == 2

\* the longest input handed to Generate by a sequential caller
MaxInputLen == 2

\* how many Generate calls a sequential caller makes on one Generator
MaxCalls == 3

\* the longest input handed to Generate by each of two concurrent callers
MaxConcInputLen == 1

-----------------------------------------------------------------------------
(* Bytes and bit operations (Go's uint8 operators &, |, >>, <<) *)

Byte == 0..255

RECURSIVE And(_, _)
And(x, y) ==
    IF x = 0 \/ y = 0 THEN 0
    ELSE (x % 2) * (y % 2) + 2 * And(x \div 2, y \div 2)

RECURSIVE Or(_, _)
Or(x, y) ==
    IF x = 0 THEN y
    ELSE IF y = 0 THEN x
    ELSE (IF x % 2 = 1 \/ y % 2 = 1 THEN 1 ELSE 0) + 2 * Or(x \div 2, y \div 2)

Shr(x, n) == x \div (2 ^ n)

\* a shift on uint8 drops the bits shifted out
Shl(x, n) == (x * (2 ^ n)) % 256

\* Go's s[i]
At(s, i) == s[i + 1]

-----------------------------------------------------------------------------
(* type UUID [16]byte *)

UUIDLen == 16

UUIDIndex == 0..(UUIDLen - 1)

\* var uuid UUID
ZeroUUID == [i \in UUIDIndex |-> 0]

\* Go's copy(dst[:], src): min(len(dst), len(src)) bytes are copied
copy(dst, src) ==
    [i \in UUIDIndex |-> IF i < Len(src) THEN At(src, i) ELSE dst[i]]

-----------------------------------------------------------------------------
(* Parse *)

StrLen == 36

Hyphen == 45   \* '-'

\* no length test
LengthUnchecked(s) == TRUE

\* len(s) != 36 is an error
LengthOk(s) == Len(s) = StrLen

\* the last hyphen looked for one position late
HyphenIdxLate == <<8, 13, 18, 24>>

\* the positions the hyphen test reads, in the order it reads them
HyphenIdx == <<8, 13, 18, 23>>

\* s[8] != '-' || s[13] != '-' || s[18] != '-' || s[23] != '-', evaluated left
\* to right and stopping at the first true operand.  An index at or past
\* len(s) is a run-time panic.  reads lists the positions read.
RECURSIVE HyphenScan(_, _, _)
HyphenScan(s, k, reads) ==
    IF k > Len(HyphenIdx) THEN [reads |-> reads, verdict |-> "ok"]
    ELSE LET i == HyphenIdx[k] IN
         IF i >= Len(s) THEN [reads |-> Append(reads, i), verdict |-> "panic"]
         ELSE IF At(s, i) # Hyphen
              THEN [reads |-> Append(reads, i), verdict |-> "bad"]
              ELSE HyphenScan(s, k + 1, Append(reads, i))

NotHyphen(c) == c # Hyphen

\* strings.ReplaceAll(s, "-", "")
ReplaceAll(s) == SelectSeq(s, NotHyphen)

\* encoding/hex's reverseHexTable: the digit's value, 255 for any other byte
reverseHexTable(c) ==
    IF c >= 48 /\ c <= 57 THEN c - 48              \* '0'..'9'
    ELSE IF c >= 97 /\ c <= 102 THEN c - 97 + 10   \* 'a'..'f'
    ELSE IF c >= 65 /\ c <= 70 THEN c - 65 + 10    \* 'A'..'F'
    ELSE 255

\* encoding/hex's Decode: pairs of digits from the left; an odd length is an
\* error (ErrLength), reported after any invalid byte.  j is Go's j.
RECURSIVE DecodeLoop(_, _, _)
DecodeLoop(src, j, dst) ==
    IF j < Len(src)
    THEN LET x == reverseHexTable(At(src, j - 1))
             y == reverseHexTable(At(src, j))
         IN  IF x > 15 \/ y > 15
             THEN [dec |-> dst, err |-> "InvalidByteError"]
             ELSE DecodeLoop(src, j + 2, Append(dst, Or(Shl(x, 4), y)))
    ELSE IF Len(src) % 2 = 1
         THEN IF reverseHexTable(At(src, j - 1)) > 15
              THEN [dec |-> dst, err |-> "InvalidByteError"]
              ELSE [dec |-> dst, err |-> "ErrLength"]
         ELSE [dec |-> dst, err |-> "nil"]

\* hex.DecodeString(s)
DecodeString(s) == DecodeLoop(s, 1, <<>>)

\* what a call returns: the UUID, the error ("nil" for none), whether the call
\* panicked instead of returning, and the positions of s the hyphen test read
Returned(uuid, err, reads) ==
    [uuid |-> uuid, err |-> err, panic |-> FALSE, reads |-> reads]

Panicked(reads) ==
    [uuid |-> ZeroUUID, err |-> "nil", panic |-> TRUE, reads |-> reads]

Parse(s) ==
    IF ~LengthOk(s) THEN Returned(ZeroUUID, "length", <<>>)
    ELSE LET h == HyphenScan(s, 1, <<>>) IN
         IF h.verdict = "panic" THEN Panicked(h.reads)
         ELSE IF h.verdict = "bad" THEN Returned(ZeroUUID, "format", h.reads)
         ELSE LET d == DecodeString(ReplaceAll(s)) IN
              IF d.err # "nil" THEN Returned(ZeroUUID, d.err, h.reads)
              ELSE Returned(copy(ZeroUUID, d.dec), "nil", h.reads)

\* the error dropped: the zero UUID is returned
MustParseQuiet(s) ==
    LET r == Parse(s) IN
    IF r.panic THEN r ELSE Returned(r.uuid, "nil", r.reads)

\* MustParse: panic(...) when Parse returns an error
MustParse(s) ==
    LET r == Parse(s) IN
    IF r.panic THEN r
    ELSE IF r.err # "nil" THEN Panicked(r.reads)
    ELSE Returned(r.uuid, "nil", r.reads)

-----------------------------------------------------------------------------
(* String and AppendFormatted *)

\* the table in upper case
hextableUpper == <<48, 49, 50, 51, 52, 53, 54, 55, 56, 57, 65, 66, 67, 68, 69, 70>>

\* const hextable = "0123456789abcdef"
hextable == <<48, 49, 50, 51, 52, 53, 54, 55, 56, 57, 97, 98, 99, 100, 101, 102>>

HexAt(i) == At(hextable, i)

String(uuid) ==
    <<
       HexAt(Shr(uuid[0], 4)), HexAt(And(uuid[0], 15)),
       HexAt(Shr(uuid[1], 4)), HexAt(And(uuid[1], 15)),
       HexAt(Shr(uuid[2], 4)), HexAt(And(uuid[2], 15)),
       HexAt(Shr(uuid[3], 4)), HexAt(And(uuid[3], 15)),
       Hyphen,
       HexAt(Shr(uuid[4], 4)), HexAt(And(uuid[4], 15)),
       HexAt(Shr(uuid[5], 4)), HexAt(And(uuid[5], 15)),
       Hyphen,
       HexAt(Shr(uuid[6], 4)), HexAt(And(uuid[6], 15)),
       HexAt(Shr(uuid[7], 4)), HexAt(And(uuid[7], 15)),
       Hyphen,
       HexAt(Shr(uuid[8], 4)), HexAt(And(uuid[8], 15)),
       HexAt(Shr(uuid[9], 4)), HexAt(And(uuid[9], 15)),
       Hyphen,
       HexAt(Shr(uuid[10], 4)), HexAt(And(uuid[10], 15)),
       HexAt(Shr(uuid[11], 4)), HexAt(And(uuid[11], 15)),
       HexAt(Shr(uuid[12], 4)), HexAt(And(uuid[12], 15)),
       HexAt(Shr(uuid[13], 4)), HexAt(And(uuid[13], 15)),
       HexAt(Shr(uuid[14], 4)), HexAt(And(uuid[14], 15)),
       HexAt(Shr(uuid[15], 4)), HexAt(And(uuid[15], 15))
    >>

\* the array literal of AppendFormatted (its own copy of the table above)
AppendFormattedArray(uuid) ==
    <<
       HexAt(Shr(uuid[0], 4)), HexAt(And(uuid[0], 15)),
       HexAt(Shr(uuid[1], 4)), HexAt(And(uuid[1], 15)),
       HexAt(Shr(uuid[2], 4)), HexAt(And(uuid[2], 15)),
       HexAt(Shr(uuid[3], 4)), HexAt(And(uuid[3], 15)),
       Hyphen,
       HexAt(Shr(uuid[4], 4)), HexAt(And(uuid[4], 15)),
       HexAt(Shr(uuid[5], 4)), HexAt(And(uuid[5], 15)),
       Hyphen,
       HexAt(Shr(uuid[6], 4)), HexAt(And(uuid[6], 15)),
       HexAt(Shr(uuid[7], 4)), HexAt(And(uuid[7], 15)),
       Hyphen,
       HexAt(Shr(uuid[8], 4)), HexAt(And(uuid[8], 15)),
       HexAt(Shr(uuid[9], 4)), HexAt(And(uuid[9], 15)),
       Hyphen,
       HexAt(Shr(uuid[10], 4)), HexAt(And(uuid[10], 15)),
       HexAt(Shr(uuid[11], 4)), HexAt(And(uuid[11], 15)),
       HexAt(Shr(uuid[12], 4)), HexAt(And(uuid[12], 15)),
       HexAt(Shr(uuid[13], 4)), HexAt(And(uuid[13], 15)),
       HexAt(Shr(uuid[14], 4)), HexAt(And(uuid[14], 15)),
       HexAt(Shr(uuid[15], 4)), HexAt(And(uuid[15], 15))
    >>

\* append(buf[:0], formatted[:]...): the buffer's contents are overwritten
AppendFormattedOver(uuid, buf) == AppendFormattedArray(uuid)

\* append(buf, formatted[:]...)
AppendFormatted(uuid, buf) == buf \o AppendFormattedArray(uuid)

-----------------------------------------------------------------------------
(* The inputs of the codec *)

\* 00000000-0000-0000-0000-000000000000 (TestNilParse)
NilStr ==
    <<48, 48, 48, 48, 48, 48, 48, 48, 45, 48, 48, 48, 48, 45, 48, 48, 48, 48,
      45, 48, 48, 48, 48, 45, 48, 48, 48, 48, 48, 48, 48, 48, 48, 48, 48, 48>>

\* 15588635-a45e-4867-aadb-dbf0385ade95 (TestParseToString)
TestStr ==
    <<49, 53, 53, 56, 56, 54, 51, 53, 45, 97, 52, 53, 101, 45, 52, 56, 54, 55,
      45, 97, 97, 100, 98, 45, 100, 98, 102, 48, 51, 56, 53, 97, 100, 101, 57, 53>>

\* ABCDEF01-23aB-Cd45-EF67-89abcdefFEDC (upper and mixed case digits)
UpperStr ==
    <<65, 66, 67, 68, 69, 70, 48, 49, 45, 50, 51, 97, 66, 45, 67, 100, 52, 53,
      45, 69, 70, 54, 55, 45, 56, 57, 97, 98, 99, 100, 101, 102, 70, 69, 68, 67>>

BaseStrings == {NilStr, TestStr, UpperStr}

\* positions (Go indexes) at which an input string may differ from its base:
\* the two digits of byte 0, both sides of the hyphens, the last digit
EditPositions == {0, 1, 8, 9, 13, 22, 23, 35}

\* '-', '0', ':' (the byte after '9'), 'F', 'a', 'g' (the byte after 'f')
EditChars == {45, 48, 58, 70, 97, 103}

Edits(positions, values, max) ==
    UNION { [P -> values] : P \in {Q \in SUBSET positions : Cardinality(Q) <= max} }

EditString(b, e) ==
    [i \in 1..Len(b) |-> IF (i - 1) \in DOMAIN e THEN e[i - 1] ELSE b[i]]

\* lengths other than 36: empty, up to and past the first hyphen, up to and
\* past the last hyphen, one short
TruncLens == {0, 8, 9, 23, 24, 35}

\* what is appended to make a string longer than 36
Tails == {<<48>>, <<45>>, <<48, 48>>}

InputStrings ==
    {EditString(b, e) : b \in BaseStrings, e \in Edits(EditPositions, EditChars, MaxEdits)}
    \cup {SubSeq(b, 1, n) : b \in BaseStrings, n \in TruncLens}
    \cup {b \o t : b \in BaseStrings, t \in Tails}

\* the namespace of the tests, 15588635-a45e-4867-aadb-dbf0385ade95
TestUUID ==
    [i \in UUIDIndex |->
        At(<<21, 88, 134, 53, 164, 94, 72, 103, 170, 219, 219, 240, 56, 90, 222, 149>>, i)]

FullUUID == [i \in UUIDIndex |-> 255]

BaseUUIDs == {ZeroUUID, TestUUID, FullUUID}

\* bytes of a UUID that an input UUID may differ from its base in: the first,
\* the version byte, the variant byte, the last
EditBytes == {0, 6, 8, 15}

\* 0x00, 0x0f, 0xa0, 0xff, 0x3c
EditValues == {0, 15, 160, 255, 60}

EditUUID(b, e) == [i \in UUIDIndex |-> IF i \in DOMAIN e THEN e[i] ELSE b[i]]

InputUUIDs ==
    {EditUUID(b, e) : b \in BaseUUIDs, e \in Edits(EditBytes, EditValues, MaxByteEdits)}

\* the buffers handed to AppendFormatted: empty (a buf[0:0]), and two that hold
\* bytes already
InputBufs == {<<>>, <<45>>, <<120, 61>>}

-----------------------------------------------------------------------------
(* The codec's calls.  Each is a pure function of its argument; a call       *)
(* records what it returned.                                                *)

NoCall == Returned(ZeroUUID, "nil", <<>>)

GenIdle ==
    /\ hg = [alg |-> "md5", h |-> <<>>, namespace |-> <<>>, buf |-> <<>>, version |-> 0]
    /\ target = <<ZeroUUID, ZeroUUID>>
    /\ input = <<<<>>, <<>>>>
    /\ calls = 0
    /\ pc = <<"idle", "idle">>
    /\ overlapped = FALSE

InitParse ==
    /\ s0 \in InputStrings
    /\ p = NoCall /\ m = NoCall /\ ps = <<>>
    /\ u0 = ZeroUUID /\ b0 = <<>> /\ f = <<>> /\ a = <<>> /\ fp = NoCall
    /\ ran = {}
    /\ GenIdle

InitFormat ==
    /\ s0 = <<>>
    /\ p = NoCall /\ m = NoCall /\ ps = <<>>
    /\ u0 \in InputUUIDs /\ b0 \in InputBufs
    /\ f = <<>> /\ a = <<>> /\ fp = NoCall
    /\ ran = {}
    /\ GenIdle

\* u, err := Parse(s0)
DoParse ==
    /\ "Parse" \notin ran
    /\ p' = Parse(s0)
    /\ ran' = ran \cup {"Parse"}
    /\ UNCHANGED <<s0, m, ps, u0, b0, f, a, fp>>
    /\ UNCHANGED genVars

\* u := MustParse(s0)
DoMustParse ==
    /\ "MustParse" \notin ran
    /\ m' = MustParse(s0)
    /\ ran' = ran \cup {"MustParse"}
    /\ UNCHANGED <<s0, p, ps, u0, b0, f, a, fp>>
    /\ UNCHANGED genVars

\* res := u.String(), of the u a successful Parse returned (TestParseToString)
DoStringOfParsed ==
    /\ "Parse" \in ran /\ ~p.panic /\ p.err = "nil"
    /\ "StringOfParsed" \notin ran
    /\ ps' = String(p.uuid)
    /\ ran' = ran \cup {"StringOfParsed"}
    /\ UNCHANGED <<s0, p, m, u0, b0, f, a, fp>>
    /\ UNCHANGED genVars

\* u0.String()
DoString ==
    /\ "String" \notin ran
    /\ f' = String(u0)
    /\ ran' = ran \cup {"String"}
    /\ UNCHANGED <<s0, p, m, ps, u0, b0, a, fp>>
    /\ UNCHANGED genVars

\* u0.AppendFormatted(b0)
DoAppendFormatted ==
    /\ "AppendFormatted" \notin ran
    /\ a' = AppendFormatted(u0, b0)
    /\ ran' = ran \cup {"AppendFormatted"}
    /\ UNCHANGED <<s0, p, m, ps, u0, b0, f, fp>>
    /\ UNCHANGED genVars

\* Parse(u0.String())
DoParseOfString ==
    /\ "String" \in ran
    /\ "ParseOfString" \notin ran
    /\ fp' = Parse(f)
    /\ ran' = ran \cup {"ParseOfString"}
    /\ UNCHANGED <<s0, p, m, ps, u0, b0, f, a>>
    /\ UNCHANGED genVars

NextParse == DoParse \/ DoMustParse \/ DoStringOfParsed

SpecParse == InitParse /\ [][NextParse]_vars

NextFormat == DoString \/ DoAppendFormatted \/ DoParseOfString

SpecFormat == InitFormat /\ [][NextFormat]_vars

-----------------------------------------------------------------------------
(* Properties of the codec *)

IsHexDigit(c) ==
    \/ c >= 48 /\ c <= 57
    \/ c >= 97 /\ c <= 102
    \/ c >= 65 /\ c <= 70

HyphenPositions == {8, 13, 18, 23}

DigitPositions == (0..(StrLen - 1)) \ HyphenPositions

\* 36 characters with '-' at positions 8, 13, 18 and 23
HyphensInPlace(s) ==
    /\ Len(s) = StrLen
    /\ \A i \in HyphenPositions : At(s, i) = Hyphen

\* the canonical text form, in either case
IsUUIDString(s) ==
    /\ HyphensInPlace(s)
    /\ \A i \in DigitPositions : IsHexDigit(At(s, i))

\* s with every A-F replaced by a-f
Lower(s) == [i \in 1..Len(s) |-> IF s[i] >= 65 /\ s[i] <= 70 THEN s[i] + 32 ELSE s[i]]

Succeeded(r) == ~r.panic /\ r.err = "nil"

Failed(r) == ~r.panic /\ r.err # "nil"

\* C1: Parse of a 36-character string with the four hyphens in place and hex
\* digits of either case elsewhere succeeds, and String() of the result is the
\* string with A-F in lower case (the string itself when it is lower case).
C1_ParseStringRoundTrip ==
    (IsUUIDString(s0) /\ "Parse" \in ran) =>
        /\ Succeeded(p)
        /\ "StringOfParsed" \in ran => ps = Lower(s0)

\* a string with upper case digits was parsed and formatted back
C1_Witness ==
    /\ IsUUIDString(s0) /\ Lower(s0) # s0
    /\ "StringOfParsed" \in ran
    /\ ps # s0

\* C2: Parse returns an error for every 36-character string with the four
\* hyphens in place and a character that is no hex digit (a '-' included) at
\* one of the other 32 positions.
C2_RejectsNonHex ==
    ("Parse" \in ran /\ HyphensInPlace(s0)
        /\ \E i \in DigitPositions : ~IsHexDigit(At(s0, i)))
    => Failed(p)

\* C3: Parse returns an error, reading no position at or past the end of the
\* string, when the length is not 36 or one of positions 8, 13, 18, 23 is not
\* '-'; with a length other than 36 no position is read at all.
C3_LengthAndHyphens ==
    "Parse" \in ran =>
        /\ ~HyphensInPlace(s0) => Failed(p)
        /\ \A k \in 1..Len(p.reads) : p.reads[k] < Len(s0)
        /\ Len(s0) # StrLen => p.reads = <<>>

\* a string too short to have a position 23 was refused
C3_Witness ==
    /\ "Parse" \in ran
    /\ Len(s0) > 0 /\ Len(s0) < 24
    /\ Failed(p)

\* C9: MustParse panics exactly when Parse returns an error, and returns the
\* UUID Parse returns otherwise.
C9_MustParse ==
    ("Parse" \in ran /\ "MustParse" \in ran) =>
        /\ m.panic <=> p.err # "nil"
        /\ ~m.panic => m.uuid = p.uuid /\ m.err = "nil"

\* both were called on a string Parse refuses
C9_Witness ==
    /\ "Parse" \in ran /\ "MustParse" \in ran
    /\ Failed(p) /\ m.panic

\* C6: AppendFormatted returns the buffer's contents followed by the 36 bytes
\* of String().
C6_AppendAgreesWithString ==
    ("String" \in ran /\ "AppendFormatted" \in ran) =>
        /\ Len(f) = StrLen
        /\ a = b0 \o f

\* both were called, with a buffer that held bytes
C6_Witness ==
    /\ "String" \in ran /\ "AppendFormatted" \in ran
    /\ b0 # <<>>
    /\ Len(a) = Len(b0) + StrLen

\* C7: Parse(u.String()) succeeds and returns u for any 16 bytes u, whatever
\* its version and variant bits; String() of the zero UUID is the nil string.
C7_StringParseRoundTrip ==
    /\ "ParseOfString" \in ran => Succeeded(fp) /\ fp.uuid = u0
    /\ ("String" \in ran /\ u0 = ZeroUUID) => f = NilStr

\* a UUID whose version is none of 1..5 and whose variant is not binary 10
\* went through String and Parse
C7_Witness ==
    /\ "ParseOfString" \in ran
    /\ Shr(u0[6], 4) \notin 1..5
    /\ Shr(u0[8], 6) # 2
    /\ fp.uuid = u0

-----------------------------------------------------------------------------
(* The Generator *)

\* crypto/md5 and crypto/sha1 are not part of the package.  They are
\* represented by their hash.Hash interface: the state of a hash is the bytes
\* written to it since the last Reset, and Sum appends to its argument a digest
\* of Size() bytes that is a function of those bytes and of the algorithm, and
\* leaves the state alone.  The function below stands for the digest: it
\* depends on every byte written and on their order.
MD5Size == 16

SHA1Size == 20

Size(alg) == IF alg = "md5" THEN MD5Size ELSE SHA1Size

RECURSIVE Absorb(_, _, _)
Absorb(acc, data, k) ==
    IF k > Len(data) THEN acc
    ELSE Absorb((acc * 33 + data[k] + 1) % 65521, data, k + 1)

Digest(alg, data) ==
    LET acc == Absorb(IF alg = "md5" THEN 7 ELSE 11, data, 1) IN
    [i \in 1..Size(alg) |->
        ((acc % 256) * (2 * i + 1) + (acc \div 256) * (i + 7) + 13 * i) % 256]

\* namespace[:]
Slice(uuid) == [i \in 1..UUIDLen |-> uuid[i - 1]]

\* make([]byte, n)
make(n) == [i \in 1..n |-> 0]

\* &Generator{md5.New(), namespace[:], make([]byte, 16), 3}
NewMD5Gen(namespace) ==
    [alg |-> "md5", h |-> <<>>, namespace |-> Slice(namespace),
     buf |-> make(16), version |-> 3]

\* &Generator{sha1.New(), namespace[:], make([]byte, 20), 5}
NewSHA1Gen(namespace) ==
    [alg |-> "sha1", h |-> <<>>, namespace |-> Slice(namespace),
     buf |-> make(20), version |-> 5]

\* the hash state left as it is
ResetNoop(g) == g

\* hg.h.Reset()
Reset(g) == [g EXCEPT !.h = <<>>]

\* hg.h.Write(b)
Write(g, b) == [g EXCEPT !.h = @ \o b]

\* hg.h.Sum(b)
Sum(g, b) == b \o Digest(g.alg, g.h)

\* hg.buf = hg.h.Sum(hg.buf[0:0])
SumIntoBuf(g) == [g EXCEPT !.buf = Sum(g, SubSeq(g.buf, 1, 0))]

\* the version or'ed in without the shift
SetVersionUnshifted(t, version) ==
    [t EXCEPT ![6] = Or(And(t[6], 15), And(version, 15))]

\* target[6] = (target[6] & 0x0f) | uint8((hg.version&0xf)<<4)
SetVersion(t, version) ==
    [t EXCEPT ![6] = Or(And(t[6], 15), Shl(And(version, 15), 4))]

\* target[8] = 0x80: the digest's low six bits dropped
SetVariantOnly(t) == [t EXCEPT ![8] = 128]

\* target[8] = (target[8] & 0x3f) | 0x80
SetVariant(t) == [t EXCEPT ![8] = Or(And(t[8], 63), 128)]

\* Generate, from its first statement to its last: the Generator and the
\* target it leaves
Generate(g, t, in) ==
    LET g1 == Reset(g)
        g2 == Write(g1, g1.namespace)
        g3 == Write(g2, in)
        g4 == SumIntoBuf(g3)
        t1 == copy(t, g4.buf)
        t2 == SetVersion(t1, g4.version)
        t3 == SetVariant(t2)
    IN  [hg |-> g4, target |-> t3]

-----------------------------------------------------------------------------
(* A caller that reuses one Generator for a sequence of calls *)

Namespaces == {TestUUID, ZeroUUID}

\* ' ', '1', 0xff
InputBytes == {32, 49, 255}

Inputs(max) == UNION { [1..n -> InputBytes] : n \in 0..max }

\* what a target may hold before a call
PriorTargets == {ZeroUUID, FullUUID}

Callers == {1, 2}

InitGen ==
    /\ s0 = <<>> /\ p = NoCall /\ m = NoCall /\ ps = <<>>
    /\ u0 = ZeroUUID /\ b0 = <<>> /\ f = <<>> /\ a = <<>> /\ fp = NoCall
    /\ ran = {}
    /\ \E ns \in Namespaces : hg \in {NewMD5Gen(ns), NewSHA1Gen(ns)}
    /\ \E t \in PriorTargets : target = <<t, ZeroUUID>>
    /\ input = <<<<>>, <<>>>>
    /\ calls = 0
    /\ pc = <<"idle", "idle">>
    /\ overlapped = FALSE

\* hg.Generate(&u, in), u either the UUID of the previous call or another one
DoGenerate ==
    /\ calls < MaxCalls
    /\ \E in \in Inputs(MaxInputLen), t \in PriorTargets \cup {target[1]} :
         LET r == Generate(hg, t, in) IN
         /\ hg' = r.hg
         /\ target' = [target EXCEPT ![1] = r.target]
         /\ input' = [input EXCEPT ![1] = in]
    /\ calls' = calls + 1
    /\ UNCHANGED <<pc, overlapped>>
    /\ UNCHANGED codecVars

NextGen == DoGenerate

SpecGen == InitGen /\ [][NextGen]_vars

-----------------------------------------------------------------------------
(* Two callers that share one Generator without serialization.  Each makes  *)
(* one call, on a target of its own; the statements of the two calls        *)
(* interleave.                                                              *)

InitConc ==
    /\ s0 = <<>> /\ p = NoCall /\ m = NoCall /\ ps = <<>>
    /\ u0 = ZeroUUID /\ b0 = <<>> /\ f = <<>> /\ a = <<>> /\ fp = NoCall
    /\ ran = {}
    /\ \E ns \in Namespaces : hg \in {NewMD5Gen(ns), NewSHA1Gen(ns)}
    /\ target = <<ZeroUUID, ZeroUUID>>
    /\ input \in Inputs(MaxConcInputLen) \X Inputs(MaxConcInputLen)
    /\ calls = 0
    /\ pc = <<"reset", "reset">>
    /\ overlapped = FALSE

Other(c) == 3 - c

\* the other caller is between its first and its last statement
Inside(c) == pc[c] \notin {"reset", "done"}

Step(c, from, to) ==
    /\ pc[c] = from
    /\ pc' = [pc EXCEPT ![c] = to]
    /\ overlapped' = (overlapped \/ Inside(Other(c)))
    /\ calls' = IF to = "done" THEN calls + 1 ELSE calls
    /\ UNCHANGED <<input>>
    /\ UNCHANGED codecVars

StepReset(c) ==
    /\ Step(c, "reset", "writeNamespace")
    /\ hg' = Reset(hg)
    /\ UNCHANGED target

StepWriteNamespace(c) ==
    /\ Step(c, "writeNamespace", "writeInput")
    /\ hg' = Write(hg, hg.namespace)
    /\ UNCHANGED target

StepWriteInput(c) ==
    /\ Step(c, "writeInput", "sum")
    /\ hg' = Write(hg, input[c])
    /\ UNCHANGED target

StepSum(c) ==
    /\ Step(c, "sum", "copy")
    /\ hg' = SumIntoBuf(hg)
    /\ UNCHANGED target

StepCopy(c) ==
    /\ Step(c, "copy", "version")
    /\ target' = [target EXCEPT ![c] = copy(target[c], hg.buf)]
    /\ UNCHANGED hg

StepVersion(c) ==
    /\ Step(c, "version", "variant")
    /\ target' = [target EXCEPT ![c] = SetVersion(target[c], hg.version)]
    /\ UNCHANGED hg

StepVariant(c) ==
    /\ Step(c, "variant", "done")
    /\ target' = [target EXCEPT ![c] = SetVariant(target[c])]
    /\ UNCHANGED hg

NextConc ==
    \E c \in Callers :
        \/ StepReset(c)
        \/ StepWriteNamespace(c)
        \/ StepWriteInput(c)
        \/ StepSum(c)
        \/ StepCopy(c)
        \/ StepVersion(c)
        \/ StepVariant(c)

SpecConc == InitConc /\ [][NextConc]_vars

-----------------------------------------------------------------------------
(* Properties of the Generator *)

\* the version of the constructor that made the Generator
VersionOf(g) == IF g.alg = "md5" THEN 3 ELSE 5

\* the namespace the Generator was made for
NamespaceOf(g) == [i \in UUIDIndex |-> At(g.namespace, i)]

\* a Generator newly made for the same namespace and algorithm
Fresh(g) ==
    IF g.alg = "md5" THEN NewMD5Gen(NamespaceOf(g)) ELSE NewSHA1Gen(NamespaceOf(g))

\* what the first call of a newly made Generator writes for an input
FreshOutput(g, in) == Generate(Fresh(g), ZeroUUID, in).target

\* the digest, from a reset hash, of the namespace followed by the input
DigestOf(g, in) == Digest(g.alg, g.namespace \o in)

\* C4: after Generate the high nibble of target[6] is the Generator's version
\* (3 from NewMD5Gen, 5 from NewSHA1Gen) and the top two bits of target[8] are
\* binary 10, whatever the input and whatever the target held before.
C4_VersionAndVariant ==
    calls > 0 =>
        /\ Shr(target[1][6], 4) = VersionOf(hg)
        /\ Shr(target[1][8], 6) = 2

\* a call whose digest has other bits at both places
C4_Witness ==
    /\ calls > 0
    /\ Shr(At(DigestOf(hg, input[1]), 6), 4) # VersionOf(hg)
    /\ Shr(At(DigestOf(hg, input[1]), 8), 6) # 2
    /\ Shr(target[1][6], 4) = VersionOf(hg)

\* C5: what a call writes to its target is what a newly made Generator for the
\* same namespace and algorithm writes for that call's input: it depends
\* neither on the earlier calls nor on what the target held.
C5_DeterministicUnderReuse ==
    calls > 0 => target[1] = FreshOutput(hg, input[1])

\* a third call on the same Generator
C5_Witness ==
    /\ calls = MaxCalls
    /\ input[1] # <<>>
    /\ target[1] = FreshOutput(hg, input[1])

\* C10: after Generate the target holds the first 16 bytes of the digest of the
\* namespace followed by the input, but for the high nibble of byte 6 and the
\* top two bits of byte 8.
C10_DigestBody ==
    calls > 0 =>
        LET d == DigestOf(hg, input[1]) IN
        /\ Len(d) = Size(hg.alg)
        /\ \A i \in UUIDIndex \ {6, 8} : target[1][i] = At(d, i)
        /\ And(target[1][6], 15) = And(At(d, 6), 15)
        /\ And(target[1][8], 63) = And(At(d, 8), 63)

\* a SHA-1 call (a 20 byte digest) that kept low bits of the digest at both
\* places
C10_Witness ==
    /\ calls > 1
    /\ hg.alg = "sha1"
    /\ Len(hg.buf) = SHA1Size
    /\ And(target[1][6], 15) # 0
    /\ And(target[1][8], 63) # 0

\* C8: two calls on one Generator that are not serialized can leave in a
\* target a value other than the one a serialized call writes; a call that did
\* not overlap the other writes the serialized value.
C8_WrongOnlyIfOverlapped ==
    \A c \in Callers :
        (pc[c] = "done" /\ target[c] # FreshOutput(hg, input[c])) => overlapped

\* both calls have returned, their inputs differ, and the target of one holds
\* another value than a serialized call writes
C8_Witness ==
    /\ pc = <<"done", "done">>
    /\ input[1] # input[2]
    /\ \E c \in Callers : target[c] # FreshOutput(hg, input[c])

=============================================================================
